---- MODULE Spec2Model ----
(***************************************************************************)
(* Model of pypmc/pmc/importance_sampling.py: the plain importance sampler *)
(* (ImportanceSampler) and the deterministic-mixture sampler               *)
(* (DeterministicIS), with their ledgers (History objects), the list of    *)
(* proposal snapshots and the floating-point arithmetic of the weights,    *)
(* and the moment estimators calculate_expectation, calculate_mean and     *)
(* calculate_covariance applied to the samples of a history.               *)
(*                                                                         *)
(* Floats are records [k, n, d]: k = "num" is the rational n/d in lowest   *)
(* terms (d >= 1), k = "inf" / "ninf" / "nan" are the IEEE specials.       *)
(* Rounding is not modelled: finite values are exact rationals.  exp is    *)
(* modelled on integer log-densities as k |-> 2^k, which keeps             *)
(* exp(a - b) = exp(a) / exp(b), exp(-inf) = 0, exp(inf) = inf.            *)
(***************************************************************************)
EXTENDS Integers, Sequences, FiniteSets, TLC

\* ------------------------------------------------------------------ bounds
\* Most rounds a sample ledger may hold before run is no longer taken.
MaxRounds == 2
\* Most rounds when no collaborator raises (SpecClean, SpecPair).
MaxRoundsClean == 2
\* Largest round size N passed to run (N ranges over 1..MaxN).
MaxN == 2
\* Most failed run calls (a collaborator raising) since construction / clear.
MaxFaults == 1
\* The same two bounds for the behaviours that clear the history alone.
MaxRoundsMisuse == 3
MaxFaultsMisuse == 2
\* Most rounds of a plain sampler run next to a sampler that is cleared.
MaxRoundsReuse == 3

\* ------------------------------------------------------- float arithmetic
Abs(a) == IF a < 0 THEN -a ELSE a

RECURSIVE GCD(_, _)
GCD(a, b) == IF b = 0 THEN a ELSE GCD(b, a % b)

FNan == [k |-> "nan", n |-> 0, d |-> 1]
FInf == [k |-> "inf", n |-> 0, d |-> 1]
FNegInf == [k |-> "ninf", n |-> 0, d |-> 1]

\* The float n/d (d # 0), in lowest terms with a positive denominator.
FNum(n, d) ==
  IF d = 1 THEN [k |-> "num", n |-> n, d |-> 1]
  ELSE LET s == IF d < 0 THEN -1 ELSE 1
           g == GCD(Abs(n), Abs(d))
       IN  [k |-> "num", n |-> (s * n) \div g, d |-> (s * d) \div g]

FInt(i) == FNum(i, 1)
FZero == FInt(0)

IsNum(a) == a.k = "num"
IsNan(a) == a.k = "nan"
\* Sign of a float that is not nan: -1, 0 or 1.
FSign(a) ==
  CASE a.k = "inf" -> 1
    [] a.k = "ninf" -> -1
    [] OTHER -> IF a.n > 0 THEN 1 ELSE IF a.n < 0 THEN -1 ELSE 0

FSigned(s) == IF s > 0 THEN FInf ELSE FNegInf

FNeg(a) ==
  CASE a.k = "nan" -> FNan
    [] a.k = "inf" -> FNegInf
    [] a.k = "ninf" -> FInf
    [] OTHER -> FNum(-a.n, a.d)

\* IEEE addition.
FAdd(a, b) ==
  CASE IsNan(a) \/ IsNan(b) -> FNan
    [] IsNum(a) /\ IsNum(b) -> FNum(a.n * b.d + b.n * a.d, a.d * b.d)
    [] IsNum(a) -> b
    [] IsNum(b) -> a
    [] OTHER -> IF a.k = b.k THEN a ELSE FNan

FSub(a, b) == FAdd(a, FNeg(b))

\* IEEE multiplication.
FMul(a, b) ==
  CASE IsNan(a) \/ IsNan(b) -> FNan
    [] IsNum(a) /\ IsNum(b) -> FNum(a.n * b.n, a.d * b.d)
    [] OTHER -> IF FSign(a) * FSign(b) = 0 THEN FNan
                ELSE FSigned(FSign(a) * FSign(b))

\* IEEE division as numpy performs it on arrays: a zero divisor gives inf,
\* -inf or nan (a warning, never an exception).
FDiv(a, b) ==
  CASE IsNan(a) \/ IsNan(b) -> FNan
    [] IsNum(a) /\ IsNum(b) ->
         IF b.n # 0 THEN FNum(a.n * b.d, a.d * b.n)
         ELSE IF a.n = 0 THEN FNan ELSE FSigned(a.n)
    [] IsNum(a) -> FZero
    [] IsNum(b) -> IF b.n < 0 THEN FSigned(-FSign(a)) ELSE FSigned(FSign(a))
    [] OTHER -> FNan

\* math.exp on a log-density: an integer, +-inf or nan.
FExp(a) ==
  CASE a.k = "nan" -> FNan
    [] a.k = "inf" -> FInf
    [] a.k = "ninf" -> FZero
    [] OTHER -> IF a.n >= 0 THEN FNum(2 ^ a.n, 1) ELSE FNum(1, 2 ^ (-a.n))

\* a >= 0 as a float comparison (false for nan).
FNonNeg(a) == ~IsNan(a) /\ FSign(a) >= 0

\* ----------------------------------------------------------- collaborators
\* Sample points the proposals can draw.
Points == {1, 2}

\* The proposals: "q1" and "q2" evaluate to the constants 1 and 2 at every
\* point; "q0" has density 0 (log-density -inf) at point 1.
Proposals == {"q1", "q2", "q0"}

\* proposal.evaluate(point): the log-density.
Evaluate(p, x) ==
  CASE p = "q1" -> FInt(1)
    [] p = "q2" -> FInt(2)
    [] OTHER -> IF x = 1 THEN FNegInf ELSE FInt(0)

\* The targets an instance can be built with: "const" is the constant
\* log-density 1; "ind" is log-density 0 whose indicator rejects point 1.
Targets == {"const", "ind"}

\* indicator(point): "const" is built without an indicator (every point
\* passes), the indicator of "ind" rejects point 1.
Indicator(t, x) == t = "const" \/ x # 1

\* The underlying target function: the log-density at a point.
RawTarget(t, x) == IF t = "const" THEN FInt(1) ELSE FInt(0)

\* self.target(point): the target merged with its indicator; the underlying
\* function is called only when the indicator accepts, -inf otherwise.
Target(t, x) == IF Indicator(t, x) THEN RawTarget(t, x) ELSE FNegInf

\* The record of one call self.target(x): the point, and whether the
\* underlying target function was invoked by it.
TargetCall(t, x) == [x |-> x, raw |-> Indicator(t, x)]

\* Values an uninitialized cell of a freshly appended block may hold.
Garbage == {FInt(-1), FNan}

\* ------------------------------------------------------------ the ledgers
\* A History: the flat row sequence and the sizes of its rounds.
EmptyHistory == [rows |-> <<>>, sizes |-> <<>>]

RECURSIVE SumSeq(_)
SumSeq(s) == IF s = <<>> THEN 0 ELSE Head(s) + SumSeq(Tail(s))

\* The rows given as a function on 1..n, as the sequence they are.
RowSeq(f) == SubSeq(f, 1, Len(f))

\* len(history): the number of rounds.
NumRounds(h) == Len(h.sizes)

\* History.append(n): a new round of n rows, uninitialized.
HistoryAppend(h, block) ==
  [rows |-> h.rows \o block, sizes |-> Append(h.sizes, Len(block))]

\* len(history[:-1]): the rows of every round but the last.
NumOldRows(h) ==
  IF h.sizes = <<>> THEN 0 ELSE Len(h.rows) - h.sizes[Len(h.sizes)]

VARIABLES
  history,            \* self.history: rows [w, x] (weight, point)
  deltas_targets,     \* self._deltas_targets_evaluated: rows [delta, target]
  proposal_history,   \* self.proposal_history: the snapshots
  proposal,           \* self.proposal: the live proposal
  target,             \* self.target: fixed at construction
  is_history,         \* the history of a plain ImportanceSampler
  result,             \* how the last call ended
  run_sizes,          \* sizes of the run calls since construction / clear
  clean,              \* no run failed and no ledger was cleared alone since
  faults,             \* failed run calls since construction / clear
  cleared,            \* entries found by the consecutive clear() calls
  target_calls,       \* the calls of self.target made by the last call
  used,               \* the live proposal as it was when each round ran
  shared,             \* holders of the very object self.proposal refers to:
                      \* 0 is the caller's object, j >= 1 is snapshot j
  arg,                \* the proposal object the caller holds
  estimate            \* how the last moment estimator call ended

vars == <<history, deltas_targets, proposal_history, proposal, target,
          is_history, result, run_sizes, clean, faults, cleared,
          target_calls, used, shared, arg, estimate>>

\* No estimator was called yet.
NoEstimate == [fn |-> "none", raised |-> FALSE, value |-> FZero]

\* ImportanceSampler.__init__ and DeterministicIS.__init__.
Init ==
  /\ history = EmptyHistory
  /\ deltas_targets = EmptyHistory
  /\ proposal_history = <<>>
  /\ proposal \in Proposals
  /\ target \in Targets
  /\ is_history = EmptyHistory
  /\ result = "init"
  /\ run_sizes = <<>>
  /\ clean = TRUE
  /\ faults = 0
  /\ cleared = <<>>
  /\ target_calls = <<>>
  /\ used = <<>>
  /\ shared = {}
  /\ arg = "unheld"
  /\ estimate = NoEstimate

\* What clear() finds in the three structures.
Entries ==
  Len(history.rows) + Len(deltas_targets.rows) + Len(proposal_history)

\* The record of the consecutive clear() calls, after one more (kept for
\* the first two of them).
ClearedAfter == IF Len(cleared) < 2 THEN Append(cleared, Entries) ELSE cleared

\* Mutant of Clear: the sample ledger is not cleared.
ClearAuxOnly ==
  /\ deltas_targets' = EmptyHistory
  /\ proposal_history' = <<>>
  /\ result' = "cleared"
  /\ run_sizes' = <<>>
  /\ clean' = TRUE
  /\ faults' = 0
  /\ cleared' = ClearedAfter
  /\ target_calls' = <<>>
  /\ used' = <<>>
  /\ shared' = shared \cap {0}
  /\ UNCHANGED <<history, proposal, target, is_history, arg, estimate>>

\* Mutant of Clear: the snapshot list is not emptied.
ClearLedgersOnly ==
  /\ history' = EmptyHistory
  /\ deltas_targets' = EmptyHistory
  /\ result' = "cleared"
  /\ run_sizes' = <<>>
  /\ clean' = TRUE
  /\ faults' = 0
  /\ cleared' = ClearedAfter
  /\ target_calls' = <<>>
  /\ UNCHANGED <<proposal_history, used, shared, proposal, target,
                 is_history, arg, estimate>>

\* DeterministicIS.clear().
Clear ==
  /\ history' = EmptyHistory
  /\ deltas_targets' = EmptyHistory
  /\ proposal_history' = <<>>
  /\ result' = "cleared"
  /\ run_sizes' = <<>>
  /\ clean' = TRUE
  /\ faults' = 0
  /\ cleared' = ClearedAfter
  /\ target_calls' = <<>>
  /\ used' = <<>>
  /\ shared' = shared \cap {0}
  /\ UNCHANGED <<proposal, target, is_history, arg, estimate>>

\* sampler.proposal = other: the caller replaces the live proposal by an
\* object nothing else refers to.
SetProposal ==
  /\ \E p \in Proposals \ {proposal} : proposal' = p
  /\ shared' = {}
  /\ UNCHANGED <<history, deltas_targets, proposal_history, target,
                 is_history, result, run_sizes, clean, faults, cleared,
                 target_calls, used, arg, estimate>>

\* history.clear() called alone: the misuse the inconsistency message names.
HistoryClear ==
  /\ history' = EmptyHistory
  /\ result' = "hcleared"
  /\ run_sizes' = <<>>
  /\ clean' = (clean /\ deltas_targets = EmptyHistory)
  /\ cleared' = <<>>
  /\ target_calls' = <<>>
  /\ UNCHANGED <<deltas_targets, proposal_history, proposal, target,
                 is_history, faults, used, shared, arg, estimate>>

\* ------------------------------------------------------------------- run
\* The block History.append returns: rows not yet written.
JunkSamples(N, g, gx) == RowSeq([i \in 1..N |-> [w |-> g, x |-> gx]])
\* Mutant of JunkAux: the auxiliary ledger gets one row less than the round.
JunkAuxShort(N, g) == RowSeq([i \in 1..(N - 1) |-> [delta |-> g, target |-> g]])

JunkAux(N, g) == RowSeq([i \in 1..N |-> [delta |-> g, target |-> g]])

\* ImportanceSampler._get_samples: append a round of N rows to the history,
\* then store the proposed points in it; the weights stay unwritten.  When
\* propose raises, the appended round stays as it was allocated.
GetSamples(h, N, pts, g, gx, raises) ==
  LET h1 == HistoryAppend(h, JunkSamples(N, g, gx))
      base == Len(h.rows)
  IN  IF raises THEN h1
      ELSE [h1 EXCEPT !.rows =
              RowSeq([i \in 1..Len(h1.rows) |->
                 IF i > base THEN [w |-> g, x |-> pts[i - base]]
                 ELSE h1.rows[i]])]

\* The target loop: this_targets[i] = exp(self.target(sample)) for the first
\* upto new samples.
EvalTargets(h, dt, t, N, upto) ==
  LET hb == Len(h.rows) - N
      db == Len(dt.rows) - N
  IN  [dt EXCEPT !.rows =
         RowSeq([i \in 1..Len(dt.rows) |->
            IF i > db /\ i <= db + upto
            THEN [dt.rows[i] EXCEPT
                    !.target = FExp(Target(t, h.rows[hb + (i - db)].x))]
            ELSE dt.rows[i]])]

\* Mutant of TargetCalls: the target is called for every row of the history.
TargetCallsAllRows(h, t, N, upto) ==
  RowSeq([j \in 1..(Len(h.rows) - N + upto) |-> TargetCall(t, h.rows[j].x)])

\* The calls of self.target the target loop makes: one for each of the first
\* upto new samples, in order.
TargetCalls(h, t, N, upto) ==
  LET hb == Len(h.rows) - N
  IN  RowSeq([j \in 1..upto |-> TargetCall(t, h.rows[hb + j].x)])

\* The inner loop over the rounds of the history, for one sample x:
\* sum over i_run < upto of len(history[i_run]) * exp(q_i_run.evaluate(x)).
RECURSIVE MixtureSum(_, _, _, _)
MixtureSum(x, sizes, ph, upto) ==
  IF upto = 0 THEN FZero
  ELSE FAdd(MixtureSum(x, sizes, ph, upto - 1),
            FMul(FInt(sizes[upto]), FExp(Evaluate(ph[upto], x))))

\* Mutant of NewDeltas: a new sample gets the term of its own round only.
NewDeltasCurrentOnly(h, dt, ph, N, full, part) ==
  LET hb == Len(h.rows) - N
      db == Len(dt.rows) - N
  IN  [dt EXCEPT !.rows =
         RowSeq([i \in 1..Len(dt.rows) |->
            IF i <= db THEN dt.rows[i]
            ELSE [dt.rows[i] EXCEPT
                    !.delta = FMul(FInt(N),
                                   FExp(Evaluate(ph[Len(ph)],
                                                 h.rows[hb + (i - db)].x)))]])]

\* The deltas of the new samples: this_deltas[:] = 0, then the first `full`
\* samples get the sum over every round of the history and the next one the
\* sum over its first `part` rounds (full = N, part = 0: the loop completed).
NewDeltas(h, dt, ph, N, full, part) ==
  LET hb == Len(h.rows) - N
      db == Len(dt.rows) - N
  IN  [dt EXCEPT !.rows =
         RowSeq([i \in 1..Len(dt.rows) |->
            IF i <= db THEN dt.rows[i]
            ELSE LET x == h.rows[hb + (i - db)].x
                     upto == IF i - db <= full THEN NumRounds(h)
                             ELSE IF i - db = full + 1 THEN part ELSE 0
                 IN  [dt.rows[i] EXCEPT
                        !.delta = MixtureSum(x, h.sizes, ph, upto)]])]

\* Mutant of OldDeltas: the retroactive correction is skipped.
OldDeltasSkipped(h, dt, ph, N, upto) == dt

\* The deltas of the old samples: the first upto old rows get
\* this_N * exp(proposal_history[-1].evaluate(sample)) added.
OldDeltas(h, dt, ph, N, upto) ==
  [dt EXCEPT !.rows =
     RowSeq([i \in 1..Len(dt.rows) |->
        IF i <= upto
        THEN [dt.rows[i] EXCEPT
                !.delta = FAdd(dt.rows[i].delta,
                               FMul(FInt(N),
                                    FExp(Evaluate(ph[Len(ph)], h.rows[i].x))))]
        ELSE dt.rows[i]])]

\* Mutant of Weights: the division by the total sample count is left out.
WeightsUnnormalised(h, dt) ==
  [h EXCEPT !.rows =
     RowSeq([i \in 1..Len(h.rows) |->
        [h.rows[i] EXCEPT !.w = FDiv(dt.rows[i].target, dt.rows[i].delta)]])]

\* all_weights[:] = all_targets / (all_deltas / len(all_weights_samples)).
Weights(h, dt) ==
  [h EXCEPT !.rows =
     RowSeq([i \in 1..Len(h.rows) |->
        [h.rows[i] EXCEPT
           !.w = FDiv(dt.rows[i].target,
                      FDiv(dt.rows[i].delta, FInt(Len(h.rows))))]])]

\* Where a collaborator raises during a run: nowhere, in propose, in the
\* target at new sample i, in evaluate at new sample i and round j, or in
\* evaluate at old row i.
NoFail == [at |-> "none", i |-> 0, j |-> 0]
FailModes(N, R, nOld) ==
  {NoFail, [at |-> "propose", i |-> 0, j |-> 0]}
    \cup {[at |-> "target", i |-> i, j |-> 0] : i \in 1..N}
    \cup {[at |-> "evalnew", i |-> i, j |-> j] : i \in 1..N, j \in 1..R}
    \cup {[at |-> "evalold", i |-> i, j |-> 0] : i \in 1..nOld}

\* DeterministicIS._calculate_weights on the history h whose last round holds
\* the N new samples.  The result names how the call ended.
CalculateWeights(h, dt0, ph0, p, t, N, g, fail) ==
  LET ph == Append(ph0, p)
      dt == HistoryAppend(dt0, JunkAux(N, g))
      R == NumRounds(h)
      st(hh, dd, res, ncalls) ==
        [h |-> hh, dt |-> dd, ph |-> ph, result |-> res,
         calls |-> TargetCalls(h, t, N, ncalls)]
  IN  IF NumOldRows(h) # NumOldRows(dt) THEN st(h, dt, "AssertionError", 0)
      ELSE IF Len(h.rows) # Len(dt.rows) THEN st(h, dt, "AssertionError", 0)
      ELSE IF fail.at = "target"
      THEN st(h, EvalTargets(h, dt, t, N, fail.i - 1), "TargetError", fail.i)
      ELSE
        LET dt1 == EvalTargets(h, dt, t, N, N) IN
        IF fail.at = "evalnew"
           /\ (R <= Len(ph) \/ (fail.i = 1 /\ fail.j <= Len(ph)))
        THEN st(h, NewDeltas(h, dt1, ph, N, fail.i - 1, fail.j - 1),
                "EvaluateError", N)
        ELSE IF R > Len(ph)
        THEN st(h, NewDeltas(h, dt1, ph, N, 0, Len(ph)), "IndexError", N)
        ELSE
          LET dt2 == NewDeltas(h, dt1, ph, N, N, 0) IN
          IF R # Len(ph) THEN st(h, dt2, "AssertionError", N)
          ELSE IF fail.at = "evalold"
          THEN st(h, OldDeltas(h, dt2, ph, N, fail.i - 1), "EvaluateError", N)
          ELSE
            LET dt3 == OldDeltas(h, dt2, ph, N, NumOldRows(h)) IN
            st(Weights(h, dt3), dt3, "ok", N)

\* ImportanceSampler.run as DeterministicIS inherits it: _get_samples, then
\* _calculate_weights.
RunResult(h, dt, ph, p, t, N, pts, g, gx, fail) ==
  LET h1 == GetSamples(h, N, pts, g, gx, fail.at = "propose")
  IN  IF fail.at = "propose"
      THEN [h |-> h1, dt |-> dt, ph |-> ph, result |-> "ProposeError",
            calls |-> <<>>]
      ELSE CalculateWeights(h1, dt, ph, p, t, N, g, fail)

CollaboratorErrors == {"ProposeError", "TargetError", "EvaluateError"}

\* What a run leaves unwritten is arbitrary; what it overwrites needs no
\* choice: the garbage values and the drawn points that can show in the
\* state after a run that fails as `fail` says.
GarbageFor(fail) == IF fail.at = "none" THEN {FNan} ELSE Garbage
GarbagePointsFor(fail, Pts) ==
  IF fail.at = "propose" THEN Pts ELSE {CHOOSE x \in Pts : TRUE}
DrawsFor(fail, N, Pts) ==
  IF fail.at = "propose" THEN {[i \in 1..N |-> CHOOSE x \in Pts : TRUE]}
  ELSE [1..N -> Pts]

\* Mutant of SnapshotHolders: the live object itself is appended.
SnapshotByReference(sh, k) == sh \cup {k}

\* self.proposal_history.append(_cp(self.proposal)): the snapshot k is a
\* deep copy, an object of its own; sh holds who shares the live object.
SnapshotHolders(sh, k) == sh

\* DeterministicIS.run(N), with N in Ns, the points drawn from Pts and the
\* collaborators raising in one of the places FailAts names.
RunWith(Ns, Pts, FailAts, maxRounds, maxFaults) ==
  /\ NumRounds(history) < maxRounds
  /\ NumRounds(deltas_targets) < maxRounds
  /\ \E N \in Ns :
       \E fail \in {f \in FailModes(N, NumRounds(history) + 1,
                                    Len(history.rows)) : f.at \in FailAts} :
         \E g \in GarbageFor(fail), gx \in GarbagePointsFor(fail, Pts) :
           \E pts \in DrawsFor(fail, N, Pts) :
             \E out \in {RunResult(history, deltas_targets, proposal_history,
                                    proposal, target, N, pts, g, gx, fail)} :
                 /\ fail.at = "none" <=> out.result \notin CollaboratorErrors
                 /\ fail.at # "none" => faults < maxFaults
                 /\ history' = out.h
                 /\ deltas_targets' = out.dt
                 /\ proposal_history' = out.ph
                 /\ result' = out.result
                 /\ run_sizes' = Append(run_sizes, N)
                 /\ clean' = (clean /\ out.result = "ok")
                 /\ faults' = IF fail.at = "none" THEN faults ELSE faults + 1
                 /\ cleared' = <<>>
                 /\ target_calls' = out.calls
                 /\ used' = IF fail.at = "propose" THEN used
                            ELSE Append(used, proposal)
                 /\ shared' = IF fail.at = "propose" THEN shared
                              ELSE SnapshotHolders(shared,
                                                   Len(proposal_history) + 1)
                 /\ UNCHANGED <<proposal, target, is_history, arg, estimate>>

FailAts == {"none", "propose", "target", "evalnew", "evalold"}

Run == RunWith(1..MaxN, Points, FailAts, MaxRounds, MaxFaults)

Next == Run \/ Clear \/ SetProposal

Spec == Init /\ [][Next]_vars

\* Runs in which no collaborator raises.
RunClean == RunWith(1..MaxN, Points, {"none"}, MaxRoundsClean, 0)

NextClean == RunClean \/ Clear \/ SetProposal

SpecClean == Init /\ [][NextClean]_vars

\* The misuse: history.clear() alone, between runs whose propose may raise.
RunMisuse ==
  RunWith(1..MaxN, {1}, {"none", "propose"}, MaxRoundsMisuse, MaxFaultsMisuse)

NextMisuse == RunMisuse \/ Clear \/ HistoryClear

SpecMisuse == Init /\ [][NextMisuse]_vars

\* ------------------------------------------------- the plain sampler
\* Mutant of ISCalculateWeights: the weight of every row of the history is
\* computed again with the current proposal.
ISCalculateWeightsAll(h, p, t, N, upto) ==
  [h EXCEPT !.rows =
     RowSeq([i \in 1..(Len(h.rows) - N + upto) |->
        [h.rows[i] EXCEPT
           !.w = FExp(FSub(Target(t, h.rows[i].x),
                           Evaluate(p, h.rows[i].x)))]]
       \o SubSeq(h.rows, Len(h.rows) - N + upto + 1, Len(h.rows)))]

\* ImportanceSampler._calculate_weights: this_run[i, 0] =
\* exp(target(x) - proposal.evaluate(x)) for the first upto rows of the last
\* round (upto = N: the loop completed).
ISCalculateWeights(h, p, t, N, upto) ==
  LET hb == Len(h.rows) - N
  IN  [h EXCEPT !.rows =
         RowSeq([i \in 1..Len(h.rows) |->
            IF i > hb /\ i <= hb + upto
            THEN [h.rows[i] EXCEPT
                    !.w = FExp(FSub(Target(t, h.rows[i].x),
                                    Evaluate(p, h.rows[i].x)))]
            ELSE h.rows[i]])]

\* ImportanceSampler.run(N): _get_samples, then _calculate_weights.
ISRunResult(h, p, t, N, pts, g, gx, fail) ==
  LET h1 == GetSamples(h, N, pts, g, gx, fail.at = "propose")
  IN  CASE fail.at = "propose" -> [h |-> h1, result |-> "ProposeError"]
        [] fail.at = "target" ->
             [h |-> ISCalculateWeights(h1, p, t, N, fail.i - 1),
              result |-> "TargetError"]
        [] fail.at = "evalnew" ->
             [h |-> ISCalculateWeights(h1, p, t, N, fail.i - 1),
              result |-> "EvaluateError"]
        [] OTHER ->
             [h |-> ISCalculateWeights(h1, p, t, N, N), result |-> "ok"]

\* A plain sampler and a deterministic-mixture sampler built with the same
\* target and proposal, run side by side on the same draws (points of Pts),
\* no collaborator raising, the plain sampler for at most maxPlain rounds.
PairRunWith(Pts, maxPlain) ==
  /\ NumRounds(history) < MaxRoundsClean
  /\ NumRounds(is_history) < maxPlain
  /\ \E N \in 1..MaxN :
       \E pts \in DrawsFor(NoFail, N, Pts) :
         \E out \in {RunResult(history, deltas_targets, proposal_history,
                                proposal, target, N, pts, FNan, 1, NoFail)},
            iso \in {ISRunResult(is_history, proposal, target, N, pts,
                                 FNan, 1, NoFail)} :
           /\ history' = out.h
           /\ deltas_targets' = out.dt
           /\ proposal_history' = out.ph
           /\ is_history' = iso.h
           /\ result' = out.result
           /\ run_sizes' = Append(run_sizes, N)
           /\ clean' = (clean /\ out.result = "ok")
           /\ cleared' = <<>>
           /\ target_calls' = out.calls
           /\ used' = Append(used, proposal)
           /\ shared' = SnapshotHolders(shared, Len(proposal_history) + 1)
           /\ UNCHANGED <<proposal, target, faults, arg, estimate>>

PairRun == PairRunWith(Points, MaxRoundsClean)

\* clear() on the deterministic-mixture sampler and history.clear() on the
\* plain one.
PairClear ==
  /\ history' = EmptyHistory
  /\ deltas_targets' = EmptyHistory
  /\ proposal_history' = <<>>
  /\ is_history' = EmptyHistory
  /\ result' = "cleared"
  /\ run_sizes' = <<>>
  /\ clean' = TRUE
  /\ faults' = 0
  /\ cleared' = ClearedAfter
  /\ target_calls' = <<>>
  /\ used' = <<>>
  /\ shared' = shared \cap {0}
  /\ UNCHANGED <<proposal, target, arg, estimate>>

NextPair == PairRun \/ PairClear \/ SetProposal

SpecPair == Init /\ [][NextPair]_vars

\* The two samplers run side by side (every drawn point is 2) while only the
\* deterministic-mixture sampler is cleared: the plain sampler keeps the
\* rounds of before the clear.
ReuseRun == PairRunWith({2}, MaxRoundsReuse)

NextReuse == ReuseRun \/ Clear \/ SetProposal

SpecReuse == Init /\ [][NextReuse]_vars

\* ------------------------------------- the proposal objects and their holders
\* Construction by a caller that keeps the proposal object it passed:
\* self.proposal = _cp(proposal) is an object of its own.
InitAlias ==
  /\ history = EmptyHistory
  /\ deltas_targets = EmptyHistory
  /\ proposal_history = <<>>
  /\ arg \in Proposals
  /\ proposal = arg
  /\ target \in Targets
  /\ is_history = EmptyHistory
  /\ result = "init"
  /\ run_sizes = <<>>
  /\ clean = TRUE
  /\ faults = 0
  /\ cleared = <<>>
  /\ target_calls = <<>>
  /\ used = <<>>
  /\ shared = {}
  /\ estimate = NoEstimate

\* The snapshot list after the object the holders in sh share is mutated
\* to p.
Mutated(ph, sh, p) ==
  RowSeq([j \in 1..Len(ph) |-> IF j \in sh THEN p ELSE ph[j]])

\* The live proposal object is mutated in place (adaptation).
Adapt ==
  /\ \E p \in Proposals \ {proposal} :
       /\ proposal' = p
       /\ proposal_history' = Mutated(proposal_history, shared, p)
       /\ arg' = IF 0 \in shared THEN p ELSE arg
  /\ UNCHANGED <<history, deltas_targets, target, is_history, result,
                 run_sizes, clean, faults, cleared, target_calls, used,
                 shared, estimate>>

\* The caller mutates the proposal object it holds.
MutateArg ==
  /\ arg # "unheld"
  /\ \E p \in Proposals \ {arg} :
       /\ arg' = p
       /\ proposal' = IF 0 \in shared THEN p ELSE proposal
       /\ proposal_history' =
            IF 0 \in shared THEN Mutated(proposal_history, shared, p)
            ELSE proposal_history
  /\ UNCHANGED <<history, deltas_targets, target, is_history, result,
                 run_sizes, clean, faults, cleared, target_calls, used,
                 shared, estimate>>

\* sampler.proposal = the object the caller holds.
AssignArg ==
  /\ arg # "unheld" /\ 0 \notin shared
  /\ proposal' = arg
  /\ shared' = {0}
  /\ UNCHANGED <<history, deltas_targets, proposal_history, target,
                 is_history, result, run_sizes, clean, faults, cleared,
                 target_calls, used, arg, estimate>>

\* Runs in which no collaborator raises and every drawn point is 2.
RunAlias == RunWith(1..MaxN, {2}, {"none"}, MaxRoundsClean, 0)

NextAlias == RunAlias \/ Clear \/ Adapt \/ MutateArg \/ AssignArg

SpecAlias == InitAlias /\ [][NextAlias]_vars

\* ------------------------------------------------ the moment estimators
\* The function f of calculate_expectation used here: the coordinate itself.
Coordinate == [x \in Points |-> FInt(x)]

\* samples[:,0].sum() over the first n rows.
RECURSIVE SumWeights(_, _)
SumWeights(rows, n) ==
  IF n = 0 THEN FZero ELSE FAdd(SumWeights(rows, n - 1), rows[n].w)

\* (samples[:,0]**2).sum() over the first n rows.
RECURSIVE SumSqWeights(_, _)
SumSqWeights(rows, n) ==
  IF n = 0 THEN FZero
  ELSE FAdd(SumSqWeights(rows, n - 1), FMul(rows[n].w, rows[n].w))

\* The loop of calculate_expectation over the first n rows:
\* out += point[0] * f(point[1:]).
RECURSIVE WeightedSum(_, _, _)
WeightedSum(rows, f, n) ==
  IF n = 0 THEN FZero
  ELSE FAdd(WeightedSum(rows, f, n - 1), FMul(rows[n].w, f[rows[n].x]))

Returned(v) == [raised |-> FALSE, value |-> v]
Raised == [raised |-> TRUE, value |-> FZero]

\* calculate_expectation(samples, f): out / normalization.  Over an empty
\* array both are Python floats and 0./0. raises ZeroDivisionError; after
\* at least one row they are numpy floats, whose division by zero gives
\* nan or inf with a warning.
CalculateExpectation(rows, f) ==
  IF Len(rows) = 0 THEN Raised
  ELSE Returned(FDiv(WeightedSum(rows, f, Len(rows)),
                     SumWeights(rows, Len(rows))))

\* calculate_mean(samples): numpy.average with weights, which raises
\* ZeroDivisionError when the weights sum to zero.
CalculateMean(rows) ==
  IF SumWeights(rows, Len(rows)) = FZero THEN Raised
  ELSE Returned(FDiv(WeightedSum(rows, Coordinate, Len(rows)),
                     SumWeights(rows, Len(rows))))

\* calculate_covariance(samples), for one-dimensional points.
CalculateCovariance(rows) ==
  LET sw == SumWeights(rows, Len(rows))
      sum_weights_sq == FMul(sw, sw)
      sum_sq_weights == SumSqWeights(rows, Len(rows))
      mean == CalculateMean(rows)
      dev == [x \in Points |->
                FMul(FSub(FInt(x), mean.value), FSub(FInt(x), mean.value))]
      e == CalculateExpectation(rows, dev)
  IN  IF mean.raised \/ e.raised THEN Raised
      ELSE Returned(FMul(FDiv(sum_weights_sq,
                              FSub(sum_weights_sq, sum_sq_weights)),
                         e.value))

Estimators == {"expectation", "mean", "covariance"}

\* One of the three estimators called on the samples of the history.
CallEstimator(fn, rows) ==
  CASE fn = "expectation" -> CalculateExpectation(rows, Coordinate)
    [] fn = "mean" -> CalculateMean(rows)
    [] OTHER -> CalculateCovariance(rows)

Estimate ==
  /\ \E fn \in Estimators :
       \E r \in {CallEstimator(fn, history.rows)} :
         estimate' = [fn |-> fn, raised |-> r.raised, value |-> r.value]
  /\ UNCHANGED <<history, deltas_targets, proposal_history, proposal, target,
                 is_history, result, run_sizes, clean, faults, cleared,
                 target_calls, used, shared, arg>>

NextMoments == RunClean \/ Clear \/ SetProposal \/ Estimate

SpecMoments == Init /\ [][NextMoments]_vars

\* ------------------------------------------------------------ the claims
\* The rows of the sample ledger, by flat index.
RowIds == 1..Len(history.rows)

\* exp(log_target(x)) and the mixture density sum_j N_j * q_j(x) at the
\* point x, from the recorded round sizes and snapshots.
TargetValue(x) == FExp(Target(target, x))
MixtureDensity(x) ==
  MixtureSum(x, history.sizes, proposal_history, NumRounds(history))

\* The rational t * N_total / s as a float, for s # 0.
MixtureWeight(t, s, ntotal) == FNum(t.n * ntotal * s.d, t.d * s.n)

ConstantProposals == {"q1", "q2"}

\* C1: after k >= 1 successful runs since construction or the last clear,
\* every stored sample has weight target_value * N_total / sum_j N_j q_j(x)
\* (wherever that sum is not zero).  With the constant target c and the
\* constant proposals e1, then e2: after round 1 every weight is exp(c - e1),
\* and after a second round of the same size every weight is
\* exp(c) / (0.5 exp(e1) + 0.5 exp(e2)).
C1_DeterministicMixtureWeights ==
  (clean /\ NumRounds(history) >= 1) =>
    /\ \A x \in Points :
         \A s \in {MixtureDensity(x)} :
           s # FZero =>
             \A wx \in {MixtureWeight(TargetValue(x), s, Len(history.rows))} :
               \A i \in RowIds :
                 history.rows[i].x = x => history.rows[i].w = wx
    /\ (target = "const" /\ NumRounds(history) = 1
        /\ proposal_history[1] \in ConstantProposals) =>
         \A i \in RowIds :
           history.rows[i].w =
             FExp(FSub(Target("const", 1), Evaluate(proposal_history[1], 1)))
    /\ (target = "const" /\ NumRounds(history) = 2
        /\ history.sizes[1] = history.sizes[2]
        /\ proposal_history[1] \in ConstantProposals
        /\ proposal_history[2] \in ConstantProposals) =>
         \A i \in RowIds :
           history.rows[i].w =
             FDiv(FExp(Target("const", 1)),
                  FAdd(FMul(FNum(1, 2), FExp(Evaluate(proposal_history[1], 1))),
                       FMul(FNum(1, 2), FExp(Evaluate(proposal_history[2], 1)))))

\* C1 witness: the constant target, two rounds of two samples drawn under
\* q1 and then q2, every weight 2 / (0.5 * 2 + 0.5 * 4) = 2/3.
C1_Witness ==
  /\ clean /\ target = "const"
  /\ proposal_history = <<"q1", "q2">>
  /\ history.sizes = <<2, 2>>
  /\ \A i \in RowIds : history.rows[i].w = FNum(2, 3)
C3_RoundCount ==
  /\ history.sizes = run_sizes
  /\ Len(history.rows) = SumSeq(run_sizes)
  /\ result = "cleared" => (Len(history.rows) = 0 /\ NumRounds(history) = 0)

\* C3 witness: run(1) then run(2): two rounds, three rows.
C3_Witness ==
  /\ run_sizes = <<1, 2>>
  /\ NumRounds(history) = 2
  /\ Len(history.rows) = 3

\* C4 as claimed: in every state reachable through run and clear, also after
\* a run in which a collaborator raised, the two ledgers have the same
\* rounds with the same row counts and there is one snapshot per round.
C4_LedgersInSync ==
  /\ history.sizes = deltas_targets.sizes
  /\ Len(history.rows) = Len(deltas_targets.rows)
  /\ Len(proposal_history) = NumRounds(history)

\* A float that is neither negative nor nan.
RowWeightOk(i) == FNonNeg(history.rows[i].w)

\* C5 as claimed: after a completed run every stored weight and every stored
\* target_value is >= 0, none negative or nan.
C5_WeightsNonNegative ==
  (clean /\ result = "ok") =>
    /\ \A i \in RowIds : RowWeightOk(i)
    /\ \A i \in 1..Len(deltas_targets.rows) :
         FNonNeg(deltas_targets.rows[i].target)
\* A step that is a completed second run: one round before, two after.
SecondRunStep ==
  /\ clean /\ NumRounds(history) = 1
  /\ clean' /\ NumRounds(history') = 2 /\ result' = "ok"

\* Round 2's proposal evaluates differently from round 1's at the point of
\* round-1 row i (read in the state after the run).
ProposalsDifferAt(i) ==
  Evaluate(proposal_history'[2], history.rows[i].x)
    # Evaluate(proposal_history'[1], history.rows[i].x)

Desynchronized ==
  \/ history.sizes # deltas_targets.sizes
  \/ Len(proposal_history) # NumRounds(history)

\* A step that is a call to run.
RunStep == Len(run_sizes') = Len(run_sizes) + 1

\* C7 as claimed: a run on desynchronized ledgers never returns normally.
C7_DesyncNeverReturns ==
  [][(Desynchronized /\ RunStep) => result' # "ok"]_vars

\* C8 as claimed: a run in which the mixture density of some sample is zero
\* does not complete normally.
C8_ZeroDenominatorFails ==
  (clean /\ result = "ok") =>
    \A i \in 1..Len(deltas_targets.rows) :
      deltas_targets.rows[i].delta # FZero

\* C9 as claimed: a run in which a collaborator raised leaves no round in the
\* sample ledger whose weights were never computed.
C9_FailedRoundNotCommitted ==
  [][(RunStep /\ result' \in CollaboratorErrors)
       => NumRounds(history') = NumRounds(history)]_vars

IsEmpty ==
  /\ NumRounds(history) = 0 /\ Len(history.rows) = 0
  /\ NumRounds(deltas_targets) = 0 /\ Len(deltas_targets.rows) = 0
  /\ Len(proposal_history) = 0

IsActive ==
  /\ NumRounds(history) >= 1
  /\ NumRounds(deltas_targets) >= 1
  /\ Len(proposal_history) >= 1

\* C10 as claimed: the sampler is always EMPTY or ACTIVE, EMPTY after
\* construction and after clear, ACTIVE after every run.
C10_EmptyOrActive ==
  /\ IsEmpty \/ IsActive
  /\ result \in {"init", "cleared"} => IsEmpty
  /\ result \notin {"init", "cleared"} => IsActive

\* A step that is a call to clear() (the first or the second in a row).
ClearStep == cleared' # cleared /\ cleared' # <<>>

\* C11: clear() empties the sample ledger, the auxiliary ledger and the
\* snapshot list together, whatever state it is called in, and a second
\* clear() right after it leaves the sampler as the first one left it.
C11_ClearEmptiesAll ==
  [][ClearStep =>
       /\ IsEmpty'
       /\ proposal' = proposal /\ target' = target
       /\ Len(cleared') = 2 =>
            /\ history' = history
            /\ deltas_targets' = deltas_targets
            /\ proposal_history' = proposal_history]_vars

\* C11 witness: clear() found entries to remove, a second clear() right
\* after it found none, and the three structures are empty.
C11_Witness ==
  /\ Len(cleared) = 2 /\ cleared[1] > 0 /\ cleared[2] = 0
  /\ IsEmpty

\* The point x fails the indicator of the target the samplers were built
\* with.
OutsideSupport(x) == ~Indicator(target, x)

\* C12 as claimed: every stored point that fails the indicator has weight 0
\* in the ledger of the deterministic-mixture sampler and in the ledger of
\* the plain sampler, after the round that drew it and after every later
\* round, and no call of the target for such a point invoked the underlying
\* target function.
C12_OutsideSupportWeightZero ==
  /\ \A i \in RowIds :
       OutsideSupport(history.rows[i].x) => history.rows[i].w = FZero
  /\ \A i \in 1..Len(is_history.rows) :
       OutsideSupport(is_history.rows[i].x) => is_history.rows[i].w = FZero
  /\ \A c \in 1..Len(target_calls) :
       OutsideSupport(target_calls[c].x) => ~target_calls[c].raw

\* A step that is a call of a moment estimator.
EstimateStep == estimate' # estimate

\* Every weight of the sample array is zero.
AllWeightsZero == \A i \in RowIds : history.rows[i].w = FZero

\* C13 as claimed: calculate_expectation, calculate_mean and
\* calculate_covariance raise when every weight of the samples is zero; none
\* of them returns a value then.
C13_ZeroWeightsRaise ==
  [][(EstimateStep /\ AllWeightsZero) => estimate'.raised]_vars

\* C14: after every successful run, the delta of every auxiliary row of
\* every round is the sum over all rounds j so far of N_j * q_j(x), q_j the
\* snapshot of round j and x the point of the row; the rows of the earlier
\* rounds got exactly the one term N_r * q_r(x) of the new round r added
\* (on the first round there is no earlier row).
C14_DeltaAccumulates ==
  [][(RunStep /\ clean') =>
       /\ Len(deltas_targets'.rows) = Len(history'.rows)
       /\ \A x \in Points :
            \A s \in {MixtureSum(x, history'.sizes, proposal_history',
                                 NumRounds(history'))} :
              \A i \in 1..Len(history'.rows) :
                history'.rows[i].x = x => deltas_targets'.rows[i].delta = s
       /\ \A x \in Points :
            \A term \in {FMul(FInt(run_sizes'[Len(run_sizes')]),
                               FExp(Evaluate(
                                 proposal_history'[Len(proposal_history')],
                                 x)))} :
              \A i \in 1..Len(deltas_targets.rows) :
                history.rows[i].x = x =>
                  deltas_targets'.rows[i].delta =
                    FAdd(deltas_targets.rows[i].delta, term)]_vars

\* C14 witness: after rounds of sizes 1 and 2 under q1 and q2 with every
\* point 2, all three rows hold delta 1 * 2 + 2 * 4 = 10.
C14_Witness ==
  /\ clean /\ history.sizes = <<1, 2>>
  /\ proposal_history = <<"q1", "q2">>
  /\ \A i \in RowIds : history.rows[i].x = 2
  /\ \A i \in 1..Len(deltas_targets.rows) :
       deltas_targets.rows[i].delta = FInt(10)

\* C15: a successful run(N) calls the target exactly N times, the j-th call
\* for the j-th newly drawn point, and leaves the coordinates and the
\* target_value of every row of the earlier rounds as they were.
C15_TargetOncePerNewPoint ==
  [][(RunStep /\ clean') =>
       /\ Len(target_calls') = run_sizes'[Len(run_sizes')]
       /\ Len(history'.rows) = Len(history.rows) + Len(target_calls')
       /\ \A j \in 1..Len(target_calls') :
            target_calls'[j].x = history'.rows[Len(history.rows) + j].x
       /\ \A i \in RowIds :
            /\ history'.rows[i].x = history.rows[i].x
            /\ deltas_targets'.rows[i].target =
                 deltas_targets.rows[i].target]_vars

\* C15 witness: a second round of two points after a first round of one:
\* two target calls, for the points of rows 2 and 3, while the weight of
\* row 1 was rewritten (2/2 = 1 became 3 * 2 / (2 + 2 * 4) = 3/5).
C15_Witness ==
  /\ clean /\ target = "const" /\ history.sizes = <<1, 2>>
  /\ proposal_history = <<"q1", "q2">>
  /\ Len(target_calls) = 2
  /\ \A j \in 1..2 : target_calls[j].x = history.rows[1 + j].x
  /\ history.rows[1].w = FNum(3, 5)
  /\ deltas_targets.rows[1].target = FInt(2)

\* sum over the rounds j <= upto of N_j * q_j(x), with q_j the live proposal
\* as it was when round j ran.
RECURSIVE UsedSum(_, _, _, _)
UsedSum(x, sizes, u, upto) ==
  IF upto = 0 THEN FZero
  ELSE FAdd(UsedSum(x, sizes, u, upto - 1),
            FMul(FInt(sizes[upto]), FExp(Evaluate(u[upto], x))))

\* C16: snapshot j is the live proposal as it was when round j ran, whatever
\* was done since to the live proposal object or to the object passed to the
\* constructor (mutation in place or replacement); the deltas of every round
\* are computed from those values; and run changes neither the live
\* proposal nor the caller's object.
C16_SnapshotsImmutable ==
  [][/\ proposal_history' = used'
     /\ \A i \in 1..Len(deltas_targets'.rows) :
          deltas_targets'.rows[i].delta =
            UsedSum(history'.rows[i].x, history'.sizes, used',
                    NumRounds(history'))
     /\ RunStep => (proposal' = proposal /\ arg' = arg)]_vars

\* C16 witness: round 1 ran under q1 and round 2 under q2; the live
\* proposal, the very object the caller holds, was then mutated to q0; the
\* snapshots are still q1 and q2 and the deltas 1 * 2 + 1 * 4 = 6.
C16_Witness ==
  /\ proposal_history = <<"q1", "q2">>
  /\ history.sizes = <<1, 1>>
  /\ proposal = "q0" /\ arg = "q0" /\ shared = {0}
  /\ \A i \in 1..Len(deltas_targets.rows) :
       deltas_targets.rows[i].delta = FInt(6)

\* C17: a run(N) of the plain sampler appends exactly one round of N rows
\* to its history and leaves the weight and the coordinates of every row of
\* every earlier round as they were, whatever proposal the run uses.
C17_PlainRunFrame ==
  [][RunStep =>
       /\ is_history'.sizes =
            Append(is_history.sizes, run_sizes'[Len(run_sizes')])
       /\ Len(is_history'.rows) =
            Len(is_history.rows) + run_sizes'[Len(run_sizes')]
       /\ \A i \in 1..Len(is_history.rows) :
            is_history'.rows[i] = is_history.rows[i]]_vars

\* C17 witness: the constant target, round 1 under q1 and round 2 under q2:
\* the plain sampler still holds exp(1 - 1) = 1 for row 1 next to
\* exp(1 - 2) = 1/2 for row 2, while the deterministic-mixture sampler run on
\* the same draws rewrote row 1 to 2/3.
C17_Witness ==
  /\ target = "const" /\ used = <<"q1", "q2">>
  /\ is_history.sizes = <<1, 1>>
  /\ is_history.rows[1].w = FInt(1)
  /\ is_history.rows[2].w = FNum(1, 2)
  /\ history.rows[1].w = FNum(2, 3)

\* What a freshly constructed DeterministicIS holds after the first k of the
\* rounds recorded since the last clear(): the same round sizes, the same
\* drawn points and the live proposal as it was at each of these rounds.
RECURSIVE FreshRun(_)
FreshRun(k) ==
  IF k = 0
  THEN [h |-> EmptyHistory, dt |-> EmptyHistory, ph |-> <<>>,
        result |-> "init", calls |-> <<>>]
  ELSE CHOOSE out \in
         {RunResult(prev.h, prev.dt, prev.ph, used[k], target,
                    history.sizes[k],
                    [j \in 1..history.sizes[k] |->
                       history.rows[Len(prev.h.rows) + j].x],
                    FNan, 1, NoFail) : prev \in {FreshRun(k - 1)}} : TRUE

\* C18: at any time, a DeterministicIS holds exactly what a freshly
\* constructed instance holds after the runs made since the last clear()
\* (the same draws, the same live proposals): nothing recorded before the
\* clear() contributes to the ledgers, snapshots, deltas or weights.
C18_ClearEqualsFresh ==
  \A f \in {FreshRun(Len(run_sizes))} :
    /\ history = f.h
    /\ deltas_targets = f.dt
    /\ proposal_history = f.ph
    /\ run_sizes # <<>> => result = f.result

\* C18 witness: the plain sampler run alongside holds three rounds, the
\* deterministic-mixture sampler was cleared after the first and holds the
\* two rounds run since (under q1, then q2), row 1 with the weight 2/3 of a
\* fresh two-round instance.
C18_Witness ==
  /\ NumRounds(is_history) = 3 /\ history.sizes = <<1, 1>>
  /\ target = "const" /\ proposal_history = <<"q1", "q2">>
  /\ result = "ok"
  /\ history.rows[1].w = FNum(2, 3)

\* C19: with run(N), N >= 1, and clear() only and collaborators that do not
\* raise, no run ends in a failed consistency assertion, and what the three
\* assertions compare agrees in every state: the old-row counts of the two
\* ledgers, their all-row counts, and the number of rounds against the
\* number of snapshots.
C19_AssertionsNeverFail ==
  /\ result \in {"init", "cleared", "ok"}
  /\ NumOldRows(history) = NumOldRows(deltas_targets)
  /\ Len(history.rows) = Len(deltas_targets.rows)
  /\ NumRounds(history) = Len(proposal_history)

\* C19 witness: a second run, of two samples after one, returned normally:
\* one old row in each ledger, three rows in all, two rounds, two snapshots.
C19_Witness ==
  /\ result = "ok" /\ run_sizes = <<1, 2>>
  /\ NumOldRows(history) = 1 /\ NumOldRows(deltas_targets) = 1
  /\ Len(history.rows) = 3 /\ Len(deltas_targets.rows) = 3
  /\ NumRounds(history) = 2 /\ Len(proposal_history) = 2
====
